---------------------------- MODULE Spec2Model ----------------------------
(***************************************************************************)
(* A model of lib/Context.js: the validator's Context object (the file     *)
(* registry and the ignore matcher) and its two loaders, Context.load      *)
(* (directory walk) and Context.loadZip (zip archive).                     *)
(*                                                                         *)
(* JavaScript strings are sequences of one-character strings, so that      *)
(* indexOf, slice, match(/\//g) and replace act on them as the code does.  *)
(* Every other JavaScript value is a record with a "type" field.           *)
(***************************************************************************)
EXTENDS Integers, Sequences, FiniteSets, TLC

VARIABLES
    ctx,          \* the Context object: its own fields name, files, ingore
    registered,   \* history: the records added by a successful addFile and
                  \* not removed since, in the order of their insertion
    last,         \* the last call made on ctx: its arguments and its outcome
    config,       \* require('./config'): maxFileDepth
    source,       \* the directory tree or the archive a loader is given
    pc,           \* where the running loader stands
    promise,      \* the promise the loader returned: its state and its value
    walked,       \* Context.load: how many files walkDir has visited
    deepDepthFiles,  \* the loaders' list of too-deep paths
    binaryFiles,  \* Context.load: the list of non-text paths
    zipFiles,     \* Context.loadZip: `files`, the qualifying entry paths
    decodes       \* Context.loadZip: one state per launched decode

vars == <<ctx, registered, last, config, source, pc, promise, walked,
          deepDepthFiles, binaryFiles, zipFiles, decodes>>

loaderVars == <<config, source, pc, promise, walked, deepDepthFiles,
                binaryFiles, zipFiles, decodes>>

---------------------------------------------------------------------------
(* JavaScript values and strings *)

Undefined == [type |-> "undefined"]

\* An inherited method of Object.prototype, as a property lookup yields it.
BuiltinFunction == [type |-> "function"]

\* ToBoolean: of the values the model holds only undefined is falsy.
Truthy(v) == v.type # "undefined"

Str(chars) == [type |-> "string", chars |-> chars]

Range(s) == {s[i] : i \in 1..Len(s)}

\* String.prototype.indexOf, 0-based, -1 when absent.
IndexOf(s, sub) ==
    LET hits == {i \in 1..(Len(s) - Len(sub) + 1) :
                     SubSeq(s, i, i + Len(sub) - 1) = sub}
    IN  IF hits = {} THEN -1
        ELSE (CHOOSE i \in hits : \A j \in hits : i <= j) - 1

\* String.prototype.slice(0, end): a negative end counts from the end.
Slice0(s, end) ==
    LET e == IF end < 0 THEN (IF Len(s) + end < 0 THEN 0 ELSE Len(s) + end)
             ELSE (IF end > Len(s) THEN Len(s) ELSE end)
    IN  SubSeq(s, 1, e)

\* file.match(/\//g): the number of matches (0 stands for the null result).
CountSlashes(s) == Cardinality({i \in 1..Len(s) : s[i] = "/"})

\* relativePath.replace(/\\/g, '/')
ReplaceBackslashes(s) == [i \in 1..Len(s) |-> IF s[i] = "\\" THEN "/" ELSE s[i]]

DigitValue(c) ==
    CASE c = "0" -> 0 [] c = "1" -> 1 [] c = "2" -> 2 [] c = "3" -> 3
      [] c = "4" -> 4 [] c = "5" -> 5 [] c = "6" -> 6 [] c = "7" -> 7
      [] c = "8" -> 8 [] c = "9" -> 9 [] OTHER -> -1

RECURSIVE NumericValue(_)
NumericValue(s) ==
    IF s = <<>> THEN 0
    ELSE 10 * NumericValue(SubSeq(s, 1, Len(s) - 1)) + DigitValue(s[Len(s)])

\* An "array index" property key: the canonical decimal form of an integer
\* below 2^32 - 1.  Object.keys lists such keys first, in numeric order.
\* Keys of up to nine digits are all below that limit; the paths used here
\* are shorter.
IsArrayIndex(key) ==
    /\ Len(key) >= 1
    /\ \A i \in 1..Len(key) : DigitValue(key[i]) >= 0
    /\ (Len(key) = 1 \/ key[1] # "0")
    /\ Len(key) <= 9

---------------------------------------------------------------------------
(* A plain JavaScript object ({}): its own properties in creation order,   *)
(* each <<key, value>>, with Object.prototype behind it.                   *)

EmptyObject == <<>>

\* Names every plain object inherits from Object.prototype.
ObjectPrototypeKeys ==
    { <<"t","o","S","t","r","i","n","g">>,
      <<"v","a","l","u","e","O","f">>,
      <<"c","o","n","s","t","r","u","c","t","o","r">>,
      <<"_","_","p","r","o","t","o","_","_">> }

HasOwn(obj, key) == \E i \in 1..Len(obj) : obj[i][1] = key

OwnIndex(obj, key) == CHOOSE i \in 1..Len(obj) : obj[i][1] = key

\* obj[key]: the own property, else what the prototype chain holds.
GetProperty(obj, key) ==
    IF HasOwn(obj, key) THEN obj[OwnIndex(obj, key)][2]
    ELSE IF key \in ObjectPrototypeKeys THEN BuiltinFunction
    ELSE Undefined

\* obj[key] = value, for a key that is no accessor of the prototype.
SetProperty(obj, key, value) ==
    IF HasOwn(obj, key)
    THEN [obj EXCEPT ![OwnIndex(obj, key)] = <<key, value>>]
    ELSE Append(obj, <<key, value>>)

\* delete obj[key]: removes an own property, touches nothing else.
DeleteProperty(obj, key) ==
    LET Keep(p) == p[1] # key IN SelectSeq(obj, Keep)

RECURSIVE SortedByIndex(_)
SortedByIndex(pairs) ==
    IF pairs = {} THEN <<>>
    ELSE LET m == CHOOSE p \in pairs :
                      \A q \in pairs : NumericValue(p[1]) <= NumericValue(q[1])
         IN  <<m>> \o SortedByIndex(pairs \ {m})

\* Object.keys(obj): array-index keys in ascending numeric order, then the
\* other string keys in creation order.
ObjectKeys(obj) ==
    LET IsIdx(p) == IsArrayIndex(p[1])
        NotIdx(p) == ~IsArrayIndex(p[1])
        ordered == SortedByIndex({obj[i] : i \in {j \in 1..Len(obj) : IsIdx(obj[j])}})
                       \o SelectSeq(obj, NotIdx)
    IN  [i \in 1..Len(ordered) |-> ordered[i][1]]

\* values(object): Object.keys(object).map(key => object[key])
values(obj) ==
    LET keys == ObjectKeys(obj)
    IN  [i \in 1..Len(keys) |-> GetProperty(obj, keys[i])]

---------------------------------------------------------------------------
(* The Context object *)

File(path, content) == [type |-> "object", path |-> path, content |-> content]

\* new Context(name, files, ignore): the ignore list is stored in the field
\* `ingore`; no field `ignore` is ever created.
Context(name, files, ignore) ==
    [name   |-> name,
     files  |-> IF Truthy(files) THEN files.props ELSE EmptyObject,
     ingore |-> IF Truthy(ignore) THEN ignore.items ELSE <<>>]

Array(items) == [type |-> "array", items |-> items]
Boolean(b) == [type |-> "boolean", value |-> b]

\* this.ignore: undefined on an object that has no field of that name.
ThisIgnore(this) ==
    IF "ignore" \in DOMAIN this THEN Array(this.ignore) ELSE Undefined

\* typeof file === 'string' ? file : file.path
PathOf(arg) == IF arg.type = "string" THEN arg.chars ELSE arg.path

Returned(v) == [threw |-> FALSE, value |-> v]
Thrown(msg, detail) == [threw |-> TRUE, value |-> [type |-> "error", message |-> msg, detail |-> detail]]

\* minimatch(filePath, pattern), for patterns made of literal characters,
\* `?` (one character other than `/`) and `*` (any run of them).
RECURSIVE minimatch(_, _)
minimatch(filePath, pattern) ==
    IF pattern = <<>> THEN filePath = <<>>
    ELSE IF pattern[1] = "*"
    THEN \E k \in 0..Len(filePath) :
             /\ \A i \in 1..k : filePath[i] # "/"
             /\ minimatch(SubSeq(filePath, k + 1, Len(filePath)), Tail(pattern))
    ELSE IF filePath = <<>> THEN FALSE
    ELSE IF pattern[1] = "?"
    THEN filePath[1] # "/" /\ minimatch(Tail(filePath), Tail(pattern))
    ELSE filePath[1] = pattern[1] /\ minimatch(Tail(filePath), Tail(pattern))

\* The loop of isIgnore: `for (i = 0; pattern = this.ignore[i]; i++)` stops
\* at the end of the list and at the first falsy (empty) pattern.
RECURSIVE IgnoreLoop(_, _, _)
IgnoreLoop(ignore, i, filePath) ==
    IF i > Len(ignore) \/ ignore[i] = <<>> THEN FALSE
    ELSE IF minimatch(filePath, ignore[i]) THEN TRUE
    ELSE IgnoreLoop(ignore, i + 1, filePath)

\* Context.prototype.isIgnore: reading `.length` of the undefined
\* this.ignore throws a TypeError.
isIgnore(this, filePath) ==
    LET ignore == ThisIgnore(this) IN
    IF ~Truthy(ignore)
    THEN Thrown("TypeError", <<"l","e","n","g","t","h">>)
    ELSE IF Len(ignore.items) = 0 THEN Returned(Boolean(FALSE))
    ELSE Returned(Boolean(IgnoreLoop(ignore.items, 1, filePath)))

\* Context.prototype.addFile: the files object after the call, and the outcome.
AddFileThrows(files, file) == Truthy(GetProperty(files, file.path))

AddFileFiles(files, file) ==
    IF AddFileThrows(files, file) THEN files
    ELSE SetProperty(files, file.path, file)

AddFileOutcome(files, file) ==
    IF AddFileThrows(files, file) THEN Thrown("exists file:", file.path)
    ELSE Returned([type |-> "this"])

\* Context.prototype.removeFile
\* (a removeFile that forgets the file-record form of its argument)
RemoveFileFilesStringOnly(files, arg) ==
    IF arg.type = "string" THEN DeleteProperty(files, arg.chars) ELSE files

RemoveFileFiles(files, arg) ==
    IF arg.type = "string" THEN DeleteProperty(files, arg.chars)
    ELSE DeleteProperty(files, arg.path)

\* Context.prototype.existsFile
existsFile(files, arg) == Truthy(GetProperty(files, PathOf(arg)))

\* Context.prototype.getFile
getFile(files, arg) == GetProperty(files, PathOf(arg))

\* Context.prototype.getFiles: the selectors a caller may pass.  A function
\* is one of the named predicates; a RegExp is a literal pattern, which
\* matches a path that contains it.
ApplyFunction(fn, file) ==
    CASE fn.name = "contentIsC1" -> file.content = "c1"
      [] fn.name = "pathLongerThanOne" -> Len(file.path) > 1
      [] OTHER -> FALSE

StringMatch(chars, regexp) == IndexOf(chars, regexp.source) >= 0

getFiles(files, pattern) ==
    IF ~Truthy(pattern) THEN values(files)
    ELSE LET filterFn(file) ==
                 IF pattern.type = "function" THEN ApplyFunction(pattern, file)
                 ELSE IF pattern.type = "regexp" THEN StringMatch(file.path, pattern)
                 ELSE TRUE
         IN  SelectSeq(values(files), filterFn)

---------------------------------------------------------------------------
(* The calls a user of a Context makes on its registry *)

RegistryPaths ==
    { <<"b">>, <<"a">>, <<"2">>, <<"1","0">>, <<"v","a","l","u","e","O","f">> }

Contents == {"c1", "c2"}

Files == {File(p, c) : p \in RegistryPaths, c \in Contents}

FileOrPath == {File(p, "c1") : p \in RegistryPaths} \cup {Str(p) : p \in RegistryPaths}

Selectors ==
    { Undefined,
      [type |-> "function", name |-> "contentIsC1"],
      [type |-> "function", name |-> "pathLongerThanOne"],
      [type |-> "regexp", source |-> <<"1">>],
      [type |-> "regexp", source |-> <<"a">>],
      Str(<<"x">>) }

\* A call on ctx as `last` records it: the files object and the history as
\* they stood when the call was made, and what the call returned or threw.
Call(op, arg, outcome) ==
    [op |-> op, arg |-> arg, files |-> ctx.files, registered |-> registered,
     threw |-> outcome.threw, value |-> outcome.value]

NoCall ==
    [op |-> "new", arg |-> Undefined, files |-> EmptyObject, registered |-> <<>>,
     threw |-> FALSE, value |-> Undefined]

LoaderIdle ==
    /\ config = [maxFileDepth |-> 1]
    /\ source = Undefined
    /\ pc = "idle"
    /\ promise = [state |-> "none", value |-> Undefined]
    /\ walked = 0
    /\ deepDepthFiles = <<>>
    /\ binaryFiles = <<>>
    /\ zipFiles = <<>>
    /\ decodes = <<>>

AddFile(file) ==
    /\ ctx' = [ctx EXCEPT !.files = AddFileFiles(ctx.files, file)]
    /\ last' = Call("addFile", file, AddFileOutcome(ctx.files, file))
    /\ registered' = IF AddFileThrows(ctx.files, file) THEN registered
                     ELSE Append(registered, file)
    /\ UNCHANGED loaderVars

RemoveFile(arg) ==
    /\ ctx' = [ctx EXCEPT !.files = RemoveFileFiles(ctx.files, arg)]
    /\ last' = Call("removeFile", arg, Returned([type |-> "this"]))
    /\ registered' = LET Other(f) == f.path # PathOf(arg)
                     IN  SelectSeq(registered, Other)
    /\ UNCHANGED loaderVars

ExistsFile(arg) ==
    /\ last' = Call("existsFile", arg, Returned(Boolean(existsFile(ctx.files, arg))))
    /\ UNCHANGED <<ctx, registered, loaderVars>>

GetFile(arg) ==
    /\ last' = Call("getFile", arg, Returned(getFile(ctx.files, arg)))
    /\ UNCHANGED <<ctx, registered, loaderVars>>

GetFiles(pattern) ==
    /\ last' = Call("getFiles", pattern, Returned(Array(getFiles(ctx.files, pattern))))
    /\ UNCHANGED <<ctx, registered, loaderVars>>

InitRegistry ==
    /\ ctx = Context(<<"w">>, Undefined, Undefined)
    /\ registered = <<>>
    /\ last = NoCall
    /\ LoaderIdle

NextRegistry ==
    \/ \E file \in Files : AddFile(file)
    \/ \E arg \in FileOrPath : RemoveFile(arg)
    \/ \E arg \in FileOrPath : ExistsFile(arg)
    \/ \E arg \in FileOrPath : GetFile(arg)
    \/ \E pattern \in Selectors : GetFiles(pattern)

SpecRegistry == InitRegistry /\ [][NextRegistry]_vars

---------------------------------------------------------------------------
(* The registry claims *)

PathsOf(records) == {records[i].path : i \in 1..Len(records)}

RecordOf(records, path) == records[CHOOSE i \in 1..Len(records) : records[i].path = path]

\* C1: addFile(file) fails if and only if file.path is registered when it is
\* called; a failing call leaves the registry as it was, a successful one
\* adds the one key file.path and leaves every other entry as it was.
C1_AddFileFailsIffRegistered ==
    last.op = "addFile" =>
        LET path == last.arg.path IN
        /\ last.threw <=> path \in PathsOf(last.registered)
        /\ last.threw => ctx.files = last.files
        /\ ~last.threw => ctx.files = Append(last.files, <<path, last.arg>>)

\* C2: removeFile(fileOrPath), given a path string or a file record, never
\* fails; a registered path loses exactly its own entry, the other entries
\* and their order staying as they were, and an unregistered path changes
\* nothing.
C2_RemoveFileRemovesExactlyOne ==
    last.op = "removeFile" =>
        LET path == PathOf(last.arg)
            Other(f) == f.path # path
            OtherEntry(e) == e[1] # path
        IN  /\ ~last.threw
            /\ ctx.files = SelectSeq(last.files, OtherEntry)
            /\ values(ctx.files) = SelectSeq(values(last.files), Other)
            /\ path \in PathsOf(last.registered) =>
                   /\ Len(ctx.files) = Len(last.files) - 1
                   /\ ~existsFile(ctx.files, last.arg)
            /\ path \notin PathsOf(last.registered) => ctx.files = last.files

\* A file record's path, registered between two others, has been removed.
C2_Witness ==
    /\ last.op = "removeFile"
    /\ last.arg.type = "object"
    /\ Len(last.files) = 3
    /\ last.files[2][1] = last.arg.path
    /\ Len(ctx.files) = 2

\* C3: existsFile(p) is true exactly when p was added by a successful
\* addFile and not removed since, and getFile(p) is then the record that
\* addFile stored and otherwise absent; on a fresh Context every path is
\* absent.
C3_LookupMatchesHistory ==
    LET path == PathOf(last.arg) IN
    /\ last.op = "existsFile" =>
           last.value = Boolean(path \in PathsOf(registered))
    /\ last.op = "getFile" =>
           last.value = IF path \in PathsOf(registered)
                        THEN RecordOf(registered, path) ELSE Undefined

\* C4: getFiles() returns the registered records in the order of their
\* (most recent) insertion, whatever the path strings; getFiles(predicate)
\* and getFiles(regex) return the records the selector accepts, in that
\* same order.
C4_GetFilesInInsertionOrder ==
    last.op = "getFiles" =>
        LET Accepts(f) ==
                CASE last.arg.type = "function" -> ApplyFunction(last.arg, f)
                  [] last.arg.type = "regexp" -> StringMatch(f.path, last.arg)
                  [] OTHER -> TRUE
        IN  last.arg.type \in {"undefined", "function", "regexp"} =>
                last.value.items = SelectSeq(registered, Accepts)

---------------------------------------------------------------------------
(* The ignore matcher: a Context constructed with an ignore list (or with  *)
(* none), then asked about paths.                                          *)

MaxIgnore == 2

Patterns == { <<"*">>, <<"a">>, <<"w","/","?">>, <<>> }

IgnorePaths == { <<"a">>, <<"b">>, <<"w","/","a">>, <<"w","/","a","/","b">> }

IgnoreLists ==
    {Undefined} \cup
        {Array(l) : l \in UNION {[1..n -> Patterns] : n \in 0..MaxIgnore}}

IsIgnore(filePath) ==
    /\ last' = Call("isIgnore", Str(filePath), isIgnore(ctx, filePath))
    /\ UNCHANGED <<ctx, registered, loaderVars>>

InitIgnore ==
    /\ \E ignore \in IgnoreLists :
           /\ ctx = Context(<<"w">>, Undefined, ignore)
           /\ source = ignore
    /\ registered = <<>>
    /\ last = NoCall
    /\ config = [maxFileDepth |-> 1]
    /\ pc = "idle"
    /\ promise = [state |-> "none", value |-> Undefined]
    /\ walked = 0
    /\ deepDepthFiles = <<>>
    /\ binaryFiles = <<>>
    /\ zipFiles = <<>>
    /\ decodes = <<>>

NextIgnore == \E filePath \in IgnorePaths : IsIgnore(filePath)

SpecIgnore == InitIgnore /\ [][NextIgnore]_vars

\* C5: for a Context constructed with an ignore list L (possibly omitted or
\* empty), isIgnore(path) returns a boolean and does not fail: true when
\* some pattern of L matches path, false otherwise.
C5_IsIgnoreMatchesList ==
    last.op = "isIgnore" =>
        LET L == IF Truthy(source) THEN source.items ELSE <<>> IN
        /\ ~last.threw
        /\ last.value = Boolean(\E i \in 1..Len(L) : minimatch(last.arg.chars, L[i]))

---------------------------------------------------------------------------
(* Promises *)

Pending == [state |-> "pending", value |-> Undefined]

\* resolve(value) / reject(error): only a pending promise changes.
Settle(p, state, value) ==
    IF p.state = "pending" THEN [state |-> state, value |-> value] ELSE p

Error(message, detail) == [type |-> "error", message |-> message, detail |-> detail]

\* A fulfilled promise's value when it is the Context held in ctx.
TheContext == [type |-> "context"]

NoContext == Undefined

---------------------------------------------------------------------------
(* Context.load: the directory loader *)

MaxConfigDepth == 2

\* config.maxFileDepth, an integer >= 1.
ConfigValues == {[maxFileDepth |-> d] : d \in 1..MaxConfigDepth}

\* path.relative(baseDir, absolutePath) of the files below the root `w`.
WalkPaths == { <<"w","/","a">>, <<"w","/","b","/","c">>, <<"w","/","b","\\","c">> }

\* What walkDir hands its visitor for one file, with what fileUtil.isPlainText
\* answers for it.
WalkEntries(cfg) ==
    [path : WalkPaths, depth : 1..(cfg.maxFileDepth + 1), text : BOOLEAN]

RECURSIVE DistinctSeqs(_, _)
\* The sequences of at most n entries of S with pairwise distinct paths.
DistinctSeqs(S, n) ==
    IF n = 0 THEN {<<>>}
    ELSE LET shorter == DistinctSeqs(S, n - 1)
             Fresh(q) == {e \in S : \A i \in 1..Len(q) : q[i].path # e.path}
         IN  shorter \cup
             UNION {{Append(q, e) : e \in Fresh(q)} :
                        q \in {r \in shorter : Len(r) = n - 1}}

\* fs.readFileSync(absolutePath, 'utf-8'): the text of that file.
ContentOf(path) == [type |-> "string", of |-> path]

Directories(cfg) ==
    {[type |-> "dir", exists |-> FALSE, walk |-> <<>>]} \cup
    {[type |-> "dir", exists |-> TRUE, walk |-> w] :
         w \in DistinctSeqs(WalkEntries(cfg), Cardinality(WalkPaths))}

\* The executor up to the walk: the existence check and the new Context.
LoadStart ==
    /\ pc = "start"
    /\ source.type = "dir"
    /\ IF ~source.exists
       THEN /\ promise' = Settle(promise, "rejected", Error("no component directory", <<>>))
            /\ pc' = "done"
            /\ UNCHANGED ctx
       ELSE /\ ctx' = Context(<<"w">>, Undefined, Undefined)
            /\ pc' = "walk"
            /\ UNCHANGED promise
    /\ UNCHANGED <<registered, last, config, source, walked, deepDepthFiles,
                   binaryFiles, zipFiles, decodes>>

\* The visitor walkDir calls for the next file.  An addFile that throws
\* leaves the executor, which rejects the promise.
LoadVisit ==
    /\ pc = "walk"
    /\ source.type = "dir"
    /\ walked < Len(source.walk)
    /\ LET entry == source.walk[walked + 1]
           file == File(ReplaceBackslashes(entry.path), ContentOf(entry.path))
       IN  /\ walked' = walked + 1
           /\ IF entry.depth > config.maxFileDepth
              THEN /\ deepDepthFiles' = Append(deepDepthFiles, entry.path)
                   /\ UNCHANGED <<binaryFiles, ctx, promise, pc>>
              ELSE IF ~entry.text
              THEN /\ binaryFiles' = Append(binaryFiles, entry.path)
                   /\ UNCHANGED <<deepDepthFiles, ctx, promise, pc>>
              ELSE /\ ctx' = [ctx EXCEPT !.files = AddFileFiles(ctx.files, file)]
                   /\ IF AddFileThrows(ctx.files, file)
                      THEN /\ promise' = Settle(promise, "rejected",
                                                AddFileOutcome(ctx.files, file).value)
                           /\ pc' = "done"
                      ELSE UNCHANGED <<promise, pc>>
                   /\ UNCHANGED <<deepDepthFiles, binaryFiles>>
    /\ UNCHANGED <<registered, last, config, source, zipFiles, decodes>>

\* The executor after the walk: the two checks, then resolve(context).
LoadFinish ==
    /\ pc = "walk"
    /\ source.type = "dir"
    /\ walked = Len(source.walk)
    /\ promise' =
           IF Len(deepDepthFiles) # 0
           THEN Settle(promise, "rejected", Error("deep files", deepDepthFiles))
           ELSE IF Len(binaryFiles) # 0
           THEN Settle(promise, "rejected", Error("binary files", binaryFiles))
           ELSE Settle(promise, "fulfilled", TheContext)
    /\ pc' = "done"
    /\ UNCHANGED <<ctx, registered, last, config, source, walked, deepDepthFiles,
                   binaryFiles, zipFiles, decodes>>

InitLoad ==
    /\ config \in ConfigValues
    /\ source \in Directories(config)
    /\ ctx = NoContext
    /\ registered = <<>>
    /\ last = NoCall
    /\ pc = "start"
    /\ promise = Pending
    /\ walked = 0
    /\ deepDepthFiles = <<>>
    /\ binaryFiles = <<>>
    /\ zipFiles = <<>>
    /\ decodes = <<>>

NextLoad == LoadStart \/ LoadVisit \/ LoadFinish

SpecLoad == InitLoad /\ [][NextLoad]_vars

\* C6: when the walk has visited every file and some file is too deep or is
\* not plain text, the load fails without a Context and its failure names
\* every too-deep path and every non-text path of the walk, also when both
\* kinds occur; a Context is delivered only when there is neither.
C6_LoadReportsAllOffenders ==
    (source.type = "dir" /\ pc = "done" /\ source.exists /\ walked = Len(source.walk)) =>
        LET W == source.walk
            deep == {W[i].path : i \in {j \in 1..Len(W) : W[j].depth > config.maxFileDepth}}
            binary == {W[i].path : i \in {j \in 1..Len(W) :
                          W[j].depth <= config.maxFileDepth /\ ~W[j].text}}
        IN  /\ (deep \cup binary # {}) =>
                   /\ promise.state = "rejected"
                   /\ deep \cup binary \subseteq Range(promise.value.detail)
            /\ promise.state = "fulfilled" => deep \cup binary = {}

---------------------------------------------------------------------------
(* Context.loadZip: the zip loader *)

MaxEntries == 3

\* The entries of an archive as zip.forEach hands them over: the path, the
\* entry's dir flag, and what fileUtil.isPlainText answers for the path.
ZipEntry(path, dir, text) == [path |-> path, dir |-> dir, text |-> text]

ZipEntries ==
    { ZipEntry(<<"m","/","a">>, FALSE, TRUE),
      ZipEntry(<<"m","/","b","/","c">>, FALSE, TRUE),
      ZipEntry(<<"m","/">>, TRUE, FALSE),
      ZipEntry(<<"m","/","p">>, FALSE, FALSE),
      ZipEntry(<<"x","/","a">>, FALSE, TRUE),
      ZipEntry(<<"m","x">>, FALSE, TRUE),
      ZipEntry(<<"m","/",".","D","S","_","S","t","o","r","e">>, FALSE, TRUE),
      ZipEntry(<<"_","_","M","A","C","O","S","X","/","a">>, FALSE, TRUE),
      ZipEntry(<<"m","/","T","h","u","m","b","s",".","d","b">>, FALSE, TRUE) }

\* The archive: missing, unreadable (fs.readFile fails), corrupt
\* (jsZip.loadAsync rejects) or ok with its entries in enumeration order.
Archives ==
    {[type |-> "zip", status |-> st, entries |-> <<>>] :
         st \in {"missing", "unreadable", "corrupt"}} \cup
    {[type |-> "zip", status |-> "ok", entries |-> es] :
         es \in DistinctSeqs(ZipEntries, MaxEntries)}

\* fileUtil.isPlainText(path), as the archive's entry records it.
isPlainText(entry) == entry.text

\* extensionName.match(config.elementNameRegex): the names the configured
\* pattern accepts.
ElementNameMatches(name) == name = <<"m">>

\* The zip.forEach callback's test: not a system or hidden path, not a
\* directory, plain text.
Qualifies(entry) ==
    /\ ~(\/ IndexOf(entry.path, <<"_","_","M","A","C","O","S","X">>) >= 0
         \/ IndexOf(entry.path, <<".","D","S","_","S","t","o","r","e">>) >= 0
         \/ IndexOf(entry.path, <<"T","h","u","m","b","s",".","d","b">>) >= 0)
    /\ ~entry.dir
    /\ isPlainText(entry)

\* `files` after zip.forEach.
QualifyingFiles(entries) ==
    LET kept == SelectSeq(entries, Qualifies)
    IN  [i \in 1..Len(kept) |-> kept[i].path]

\* files[0].slice(0, files[0].indexOf('/'))
ExtensionName(first) == Slice0(first, IndexOf(first, <<"/">>))

\* The filter that builds deepDepthFiles: m ? m.length > maxFileDepth : true
IsDeepDepthNullPasses(file, maxFileDepth) ==
    IF CountSlashes(file) > 0 THEN CountSlashes(file) > maxFileDepth ELSE FALSE
IsDeepDepth(file, maxFileDepth) ==
    IF CountSlashes(file) > 0 THEN CountSlashes(file) > maxFileDepth ELSE TRUE

DeepDepthFiles(files, maxFileDepth) ==
    LET Deep(file) == IsDeepDepth(file, maxFileDepth) IN SelectSeq(files, Deep)

\* The errors the loader creates, by the line that creates them.
ErrorNoZipFile == Error("could not find zip file!", <<>>)            \* line 195
ErrorNoFiles == Error("no mip component directory found!", <<>>)     \* line 226
ErrorBadName == Error("no mip component directory found!", <<>>)     \* line 232
ErrorDeepFiles(paths) == Error("deep files", paths)                  \* line 242
ErrorReadingZip == Error("error reading the zip file", <<>>)         \* line 266

\* The executor: the existence check, then fs.readFile is started.
LoadZipStart ==
    /\ pc = "start"
    /\ source.type = "zip"
    /\ IF source.status = "missing"
       THEN /\ promise' = Settle(promise, "rejected", ErrorNoZipFile)
            /\ pc' = "done"
       ELSE /\ pc' = "reading"
            /\ UNCHANGED promise
    /\ UNCHANGED <<ctx, registered, last, config, source, walked, deepDepthFiles,
                   binaryFiles, zipFiles, decodes>>

\* The fs.readFile callback.  Its throw happens outside the executor and
\* outside any promise chain: nothing settles the promise.
ReadFileCallback ==
    /\ pc = "reading"
    /\ pc' = IF source.status = "unreadable" THEN "uncaught" ELSE "unzipping"
    /\ UNCHANGED <<ctx, registered, last, config, source, promise, walked,
                   deepDepthFiles, binaryFiles, zipFiles, decodes>>

\* jsZip.loadAsync(data) rejects: the chain's rejection handler runs.
LoadAsyncRejected ==
    /\ pc = "unzipping"
    /\ source.status = "corrupt"
    /\ promise' = Settle(promise, "rejected", ErrorReadingZip)
    /\ pc' = "done"
    /\ UNCHANGED <<ctx, registered, last, config, source, walked, deepDepthFiles,
                   binaryFiles, zipFiles, decodes>>

NotStarted == [state |-> "pending", value |-> Undefined, at |-> 0]

\* reject(error); return;  The callback's undefined result then reaches the
\* chain's resolve, which finds the promise settled.
RejectAndReturn(p, error) ==
    Settle(Settle(p, "rejected", error), "fulfilled", Undefined)

\* jsZip.loadAsync(data) fulfils: the function(zip) callback runs, to one
\* of its three reject-and-return exits or to the launch of the decodes.
ThenZip ==
    /\ pc = "unzipping"
    /\ source.status = "ok"
    /\ LET files == QualifyingFiles(source.entries)
           extensionName == ExtensionName(files[1])
           deep == DeepDepthFiles(files, config.maxFileDepth)
       IN  /\ zipFiles' = files
           /\ IF Len(files) = 0
              THEN /\ promise' = RejectAndReturn(promise, ErrorNoFiles)
                   /\ pc' = "done"
                   /\ UNCHANGED <<ctx, deepDepthFiles, decodes>>
              ELSE IF ~ElementNameMatches(extensionName)
              THEN /\ promise' = RejectAndReturn(promise, ErrorBadName)
                   /\ pc' = "done"
                   /\ UNCHANGED <<ctx, deepDepthFiles, decodes>>
              ELSE IF Len(deep) # 0
              THEN /\ promise' = RejectAndReturn(promise, ErrorDeepFiles(deep))
                   /\ deepDepthFiles' = deep
                   /\ pc' = "done"
                   /\ UNCHANGED <<ctx, decodes>>
              ELSE /\ decodes' = [i \in 1..Len(files) |-> NotStarted]
                   /\ ctx' = Context(extensionName, Undefined, Undefined)
                   /\ deepDepthFiles' = deep
                   /\ pc' = "decoding"
                   /\ UNCHANGED promise
    /\ UNCHANGED <<registered, last, config, source, walked, binaryFiles>>

Settled(ds) == {i \in 1..Len(ds) : ds[i].state # "pending"}

\* zip.file(file).async('string') of entry i settles, in any order among the
\* launched decodes.  The first rejection rejects Promise.all at once, and
\* with it the chain.
DecodeSettles(i, ok) ==
    /\ pc = "decoding"
    /\ i \in 1..Len(decodes)
    /\ decodes[i].state = "pending"
    /\ decodes' = [decodes EXCEPT ![i] =
                      [state |-> IF ok THEN "fulfilled" ELSE "rejected",
                       value |-> IF ok THEN ContentOf(zipFiles[i]) ELSE Undefined,
                       at |-> Cardinality(Settled(decodes)) + 1]]
    /\ promise' = IF ok THEN promise ELSE Settle(promise, "rejected", ErrorReadingZip)
    /\ pc' = IF /\ Settled(decodes') = 1..Len(decodes)
                /\ \E j \in 1..Len(decodes) : decodes'[j].state = "rejected"
             THEN "done" ELSE "decoding"
    /\ UNCHANGED <<ctx, registered, last, config, source, walked, deepDepthFiles,
                   binaryFiles, zipFiles>>

\* files.forEach((file, i) => context.addFile({path: file, content: contents[i]}))
\* from entry i on: the files object reached, and whether an addFile threw.
RECURSIVE AddEach(_, _, _, _)
AddEach(filesObject, files, contents, i) ==
    IF i > Len(files) THEN [files |-> filesObject, threw |-> FALSE]
    ELSE LET file == File(files[i], contents[i]) IN
         IF AddFileThrows(filesObject, file)
         THEN [files |-> filesObject, threw |-> TRUE]
         ELSE AddEach(AddFileFiles(filesObject, file), files, contents, i + 1)

\* (a resolver that registers the files in the order their decodes completed)
PromisesResolverByCompletion(filesObject, files, ds) ==
    LET pos(k) == CHOOSE i \in 1..Len(ds) : ds[i].at = k
    IN  AddEach(filesObject, [k \in 1..Len(files) |-> files[pos(k)]],
                [k \in 1..Len(files) |-> ds[pos(k)].value], 1)

\* promisesResolver(contents), contents[i] being the value of promises[i].
promisesResolver(filesObject, files, ds) ==
    AddEach(filesObject, files, [i \in 1..Len(ds) |-> ds[i].value], 1)

\* Promise.all(promises) fulfils once every decode has: promisesResolver
\* runs and its Context reaches resolve; an addFile that throws reaches the
\* chain's rejection handler instead.
PromisesResolved ==
    /\ pc = "decoding"
    /\ \A i \in 1..Len(decodes) : decodes[i].state = "fulfilled"
    /\ LET r == promisesResolver(ctx.files, zipFiles, decodes)
       IN  /\ ctx' = [ctx EXCEPT !.files = r.files]
           /\ promise' = IF r.threw
                         THEN Settle(promise, "rejected", ErrorReadingZip)
                         ELSE Settle(promise, "fulfilled", TheContext)
    /\ pc' = "done"
    /\ UNCHANGED <<registered, last, config, source, walked, deepDepthFiles,
                   binaryFiles, zipFiles, decodes>>

InitZip ==
    /\ config \in ConfigValues
    /\ source \in Archives
    /\ ctx = NoContext
    /\ registered = <<>>
    /\ last = NoCall
    /\ pc = "start"
    /\ promise = Pending
    /\ walked = 0
    /\ deepDepthFiles = <<>>
    /\ binaryFiles = <<>>
    /\ zipFiles = <<>>
    /\ decodes = <<>>

NextZip ==
    \/ LoadZipStart
    \/ ReadFileCallback
    \/ LoadAsyncRejected
    \/ ThenZip
    \/ \E i \in 1..MaxEntries, ok \in BOOLEAN : DecodeSettles(i, ok)
    \/ PromisesResolved

SpecZip == InitZip /\ [][NextZip]_vars

---------------------------------------------------------------------------
(* The zip loader's claims *)

ZipRan == source.type = "zip" /\ pc \in {"done", "uncaught"}

\* C7: every loadZip settles the promise it returned: once the loader has
\* nothing left to run the promise is fulfilled or rejected, and it is
\* rejected when the archive is missing, unreadable or corrupt.
C7_LoadZipSettles ==
    ZipRan =>
        /\ promise.state \in {"fulfilled", "rejected"}
        /\ source.status # "ok" => promise.state = "rejected"

NamePassed ==
    /\ source.type = "zip"
    /\ pc \in {"decoding", "done"}
    /\ source.status = "ok"
    /\ Len(zipFiles) > 0
    /\ ElementNameMatches(ExtensionName(zipFiles[1]))

NameFailed ==
    /\ source.type = "zip"
    /\ pc = "done"
    /\ source.status = "ok"
    /\ Len(zipFiles) > 0
    /\ ~ElementNameMatches(ExtensionName(zipFiles[1]))

\* C8: when the first qualifying entry's top-level folder does not match
\* elementNameRegex, the load is rejected with the invalid-component-name
\* failure, which differs from the empty-component failure; no depth check
\* is made, no decode is launched and no Context is constructed.
C8_BadNameIsItsOwnFailure ==
    NameFailed =>
        /\ promise.state = "rejected"
        /\ promise.value # ErrorNoFiles
        /\ deepDepthFiles = <<>>
        /\ decodes = <<>>
        /\ ctx = NoContext

DeepError == promise.state = "rejected" /\ promise.value.message = "deep files"

\* C9 as stated: once the name check has passed, an entry is a depth
\* violation exactly when it has more than maxFileDepth separators; the
\* load fails on depth exactly when there is one, listing all of them and
\* nothing else.
C9_DeepMeansMoreSeparators ==
    NamePassed =>
        LET Over(f) == CountSlashes(f) > config.maxFileDepth
            expected == SelectSeq(zipFiles, Over)
        IN  IF Len(expected) > 0
            THEN promise = [state |-> "rejected", value |-> ErrorDeepFiles(expected)]
            ELSE ~DeepError

\* C9 as amended: once the name check has passed, an entry is a depth
\* violation exactly when it has no separator at all or more than
\* maxFileDepth of them; the load fails on depth exactly when there is one,
\* listing all of them and nothing else.
C9_DeepMeansNoneOrMoreSeparators ==
    NamePassed =>
        LET Over(f) == CountSlashes(f) = 0 \/ CountSlashes(f) > config.maxFileDepth
            expected == SelectSeq(zipFiles, Over)
        IN  IF Len(expected) > 0
            THEN promise = [state |-> "rejected", value |-> ErrorDeepFiles(expected)]
            ELSE ~DeepError

\* A depth failure that lists an entry without separator and an entry with
\* too many, and leaves out an entry within the limit.
C9_Witness ==
    /\ NamePassed
    /\ DeepError
    /\ \E i \in 1..Len(promise.value.detail) : CountSlashes(promise.value.detail[i]) = 0
    /\ \E i \in 1..Len(promise.value.detail) :
           CountSlashes(promise.value.detail[i]) > config.maxFileDepth
    /\ Len(promise.value.detail) < Len(zipFiles)

HasMarker(path) ==
    \E marker \in {<<"_","_","M","A","C","O","S","X">>, <<".","D","S","_","S","t","o","r","e">>, <<"T","h","u","m","b","s",".","d","b">>} :
        \E i \in 1..(Len(path) - Len(marker) + 1) :
            SubSeq(path, i, i + Len(marker) - 1) = marker

\* C10: a fulfilled zip load delivers a Context whose files are the
\* archive's entries that are no directory, carry no system marker and are
\* plain text, each with its own decoded content, in the archive's
\* enumeration order whatever the order in which the decodes completed; no
\* file is registered while a decode is outstanding.
C10_ZipFilesInEnumerationOrder ==
    /\ (source.type = "zip" /\ promise.state = "fulfilled") =>
           LET Wanted(e) == ~e.dir /\ ~HasMarker(e.path) /\ e.text
               wanted == SelectSeq(source.entries, Wanted)
           IN  /\ promise.value = TheContext
               /\ values(ctx.files) =
                      [i \in 1..Len(wanted) |-> File(wanted[i].path, ContentOf(wanted[i].path))]
               /\ \A i \in 1..Len(decodes) : decodes[i].state = "fulfilled"
    /\ (source.type = "zip" /\ pc = "decoding") => ctx.files = EmptyObject

\* A fulfilled load of two files whose decodes completed in the reverse of
\* the enumeration order, from an archive that also held a binary entry.
C10_Witness ==
    /\ source.type = "zip"
    /\ promise.state = "fulfilled"
    /\ Len(decodes) = 2
    /\ decodes[1].at = 2
    /\ decodes[2].at = 1
    /\ Len(values(ctx.files)) = 2
    /\ \E i \in 1..Len(source.entries) :
           ~source.entries[i].dir /\ ~source.entries[i].text

=============================================================================
